---- MODULE Spec2Model ----
(***************************************************************************)
(* Model of the removeAutoNumbering web application (app.py) and of its    *)
(* document numbering normaliser (converter.py).                           *)
(*                                                                         *)
(* Text (file names, paragraph text) is a sequence of one-character        *)
(* strings, so that the string functions of the code (lower, strip,        *)
(* startswith, rsplit, re.sub ...) are computed character by character.    *)
(***************************************************************************)
EXTENDS Integers, Sequences, FiniteSets, TLC

(***************************************************************************)
(* Bounds of the model.                                                    *)
(***************************************************************************)
MaxJobs == 2          \* jobs registered over a run
MaxFiles == 2         \* files of one /start-multi request
MaxTargets == 2       \* question paragraphs of an uploaded document
MaxRequests == 2      \* HTTP requests received over a run
MaxParas == 2         \* paragraphs of a document under inspection
MaxNameLen == 3       \* characters of a file name in front of its extension

(***************************************************************************)
(* Character-level string helpers.                                         *)
(***************************************************************************)
UpperChars ==
  <<"A","B","C","D","E","F","G","H","I","J","K","L","M",
    "N","O","P","Q","R","S","T","U","V","W","X","Y","Z">>

LowerChars ==
  <<"a","b","c","d","e","f","g","h","i","j","k","l","m",
    "n","o","p","q","r","s","t","u","v","w","x","y","z">>

\* str.lower() on one character
lower_char(c) ==
  IF \E i \in 1..Len(UpperChars) : UpperChars[i] = c
    THEN LowerChars[CHOOSE i \in 1..Len(UpperChars) : UpperChars[i] = c]
    ELSE c

\* str.lower()
lower(s) == [i \in 1..Len(s) |-> lower_char(s[i])]

\* str.startswith(prefix)
startswith(s, prefix) ==
  /\ Len(s) >= Len(prefix)
  /\ SubSeq(s, 1, Len(prefix)) = prefix

\* str.endswith(suffix)
endswith(s, suffix) ==
  /\ Len(s) >= Len(suffix)
  /\ SubSeq(s, Len(s) - Len(suffix) + 1, Len(s)) = suffix

\* the characters str.strip() and the regex class \s treat as whitespace
Whitespace == {" ", "\t", "\n", "\r", "\f"}

\* index of the last position of s whose character is in set cs, 0 if none
rfind_in(s, cs) ==
  IF \E i \in 1..Len(s) : s[i] \in cs
    THEN CHOOSE i \in 1..Len(s) :
           /\ s[i] \in cs
           /\ \A j \in (i+1)..Len(s) : s[j] \notin cs
    ELSE 0

\* index of the first position of s whose character is not in cs, Len(s)+1 if none
first_not_in(s, cs) ==
  IF \E i \in 1..Len(s) : s[i] \notin cs
    THEN CHOOSE i \in 1..Len(s) :
           /\ s[i] \notin cs
           /\ \A j \in 1..(i-1) : s[j] \in cs
    ELSE Len(s) + 1

\* index of the last position of s whose character is not in cs, 0 if none
last_not_in(s, cs) ==
  IF \E i \in 1..Len(s) : s[i] \notin cs
    THEN CHOOSE i \in 1..Len(s) :
           /\ s[i] \notin cs
           /\ \A j \in (i+1)..Len(s) : s[j] \in cs
    ELSE 0

\* str.strip()
strip(s) == SubSeq(s, first_not_in(s, Whitespace), last_not_in(s, Whitespace))

\* str.rstrip(chars)
rstrip(s, cs) == SubSeq(s, 1, last_not_in(s, cs))

\* re.sub(r"[cs]", "", s): s without the characters of cs
RECURSIVE remove_chars(_, _)
remove_chars(s, cs) ==
  IF s = <<>> THEN <<>>
  ELSE IF Head(s) \in cs THEN remove_chars(Tail(s), cs)
  ELSE <<Head(s)>> \o remove_chars(Tail(s), cs)

(***************************************************************************)
(* app.py: file name checks.                                               *)
(***************************************************************************)
DOCX == <<"d","o","c","x">>

ALLOWED_EXTENSIONS == {DOCX}

\* "." in filename and filename.rsplit(".", 1)[1].lower() in ALLOWED_EXTENSIONS
allowed_file(filename) ==
  /\ \E i \in 1..Len(filename) : filename[i] = "."
  /\ lower(SubSeq(filename, rfind_in(filename, {"."}) + 1, Len(filename)))
       \in ALLOWED_EXTENSIONS

\* os.path.basename on Windows (ntpath): drop a drive prefix "X:", then keep
\* what follows the last "/" or "\"
basename(name) ==
  LET p == IF Len(name) >= 2 /\ name[2] = ":"
             THEN SubSeq(name, 3, Len(name)) ELSE name
  IN SubSeq(p, rfind_in(p, {"/", "\\"}) + 1, Len(p))

\* os.path.splitext(p)[0] for a name without separators: cut at the last dot
\* unless only dots precede it
splitext_root(p) ==
  LET dotIndex == rfind_in(p, {"."})
  IN IF dotIndex > 0 /\ \E i \in 1..(dotIndex - 1) : p[i] # "."
       THEN SubSeq(p, 1, dotIndex - 1)
       ELSE p

\* characters removed by re.sub(r"[<>:\"/\\|?*\x00-\x1F]", "", base); of the
\* control characters the model's alphabet has tab, newline, return, form feed
ForbiddenChars == {"<", ">", ":", "\"", "/", "\\", "|", "?", "*",
                   "\t", "\n", "\r", "\f"}

DOT_DOCX == <<".">> \o DOCX

DOCUMENT_DOCX == <<"d","o","c","u","m","e","n","t">> \o DOT_DOCX

sanitize_filename_keep_parens(name) ==
  LET b1 == remove_chars(basename(name), ForbiddenChars)
      b2 == remove_chars(b1, {"\n", "\r", "\t"})
      b3 == rstrip(b2, {" ", "."})
      b4 == IF b3 = <<>> THEN DOCUMENT_DOCX ELSE b3
  IN IF ~ endswith(lower(b4), DOT_DOCX)
       THEN splitext_root(b4) \o DOT_DOCX
       ELSE b4

(***************************************************************************)
(* app.py: the job registry, the queue, the worker and the request         *)
(* handlers.                                                               *)
(***************************************************************************)
VARIABLES
  JOBS,        \* app.py:49   job id -> job record
  JOB_QUEUE,   \* app.py:51   FIFO of job ids
  put_log,     \* history: the job ids in the order JOB_QUEUE.put was called
  next_id,     \* the next fresh uuid4 (app.py:123, 162)
  worker,      \* position and locals of each worker thread (_worker_loop)
  req,         \* position and locals of each request thread
  proc,        \* position and locals of each running process_doc call
  disk,        \* convertedDocx folder: output path -> input it was converted from
  last_resp,   \* the response most recently sent by a request handler
  n_requests   \* number of requests received so far

app_vars == <<JOBS, JOB_QUEUE, put_log, next_id, worker, req, proc, disk, last_resp,
             n_requests>>

\* a second worker thread started by mistake
WorkersTwo == {"worker", "worker2"}

\* app.py:257-258 starts exactly one worker thread
Workers == {"worker"}

\* request threads of the (threaded) Flask server that run a multi-step handler
Threads == {"t1", "t2"}

ThreadIndex(t) == IF t = "t1" THEN 1 ELSE 2

Executors == Workers \cup Threads

\* Python's None, kept distinct from every path and every message
None == <<"None">>

\* a job id no upload ever returned
BogusId == 0

\* file names a client may upload
UploadNames ==
  { <<"a">> \o DOT_DOCX,
    <<"?", "a">> \o DOT_DOCX,
    <<"c", ".", "t", "x", "t">>,
    <<>> }

\* os.path.join(out_dir, filename)  (app.py:119-121)
out_path(filename) == <<"convertedDocx", "\\">> \o filename

\* os.path.join(tmpdir, f"{uuid.uuid4()}_{filename}"): a fresh path per upload
in_path(tag, filename) == <<"tmp", tag, "_">> \o filename

\* str(e) of the exceptions process_doc raises
MSG_NOT_FOUND == <<"File not found">>

MSG_COM_ERROR == <<"com_error">>

\* a response: the endpoint, the HTTP code and body, and the values the body
\* carries; jobs lists the ids the request registered before it returned
NoResp == [op |-> "", code |-> 0, body |-> "", job_id |-> BogusId, jobs |-> << >>,
           status |-> "", pct |-> 0, error |-> None, sent |-> None]

Resp(op, code, body) == [NoResp EXCEPT !.op = op, !.code = code, !.body = body]

IdleReq == [op |-> "", pc |-> "idle", files |-> <<>>, filename |-> <<>>,
            job_id |-> BogusId, jobs |-> <<>>]

IdleProc == [pc |-> "off", input_path |-> None, output_path |-> None,
             has_progress |-> FALSE, job_id |-> BogusId,
             total |-> 0, processed |-> 0, result |-> None, exc |-> None]

IdleWorker == [pc |-> "get", job_id |-> BogusId]

AppInit ==
  /\ JOBS = << >>
  /\ JOB_QUEUE = << >>
  /\ put_log = << >>
  /\ next_id = 1
  /\ worker = [w \in Workers |-> IdleWorker]
  /\ req = [t \in Threads |-> IdleReq]
  /\ proc = [e \in Executors |-> IdleProc]
  /\ disk = << >>
  /\ last_resp = NoResp
  /\ n_requests = 0

\* the job record created by start and start_multi (app.py:125-133, 164-172)
NewJob(filename, input_path) ==
  [status |-> "queued", filename |-> filename, processing_pct |-> 0,
   final_path |-> None, error |-> None,
   input_path |-> input_path, output_path |-> out_path(filename)]

\* the registry rebound to a fresh dict holding only the new job
SetJobFresh(jobs, job_id, job) == [k \in {job_id} |-> job]

\* JOBS[job_id] = job
SetJob(jobs, job_id, job) ==
  [k \in DOMAIN jobs \cup {job_id} |-> IF k = job_id THEN job ELSE jobs[k]]

\* a request is received by the first idle request thread
Receive(t) ==
  /\ req[t].pc = "idle"
  /\ \A u \in Threads : req[u].pc = "idle" => ThreadIndex(t) <= ThreadIndex(u)
  /\ n_requests < MaxRequests
  /\ n_requests' = n_requests + 1

\* return from a request handler: the thread's locals are dropped
Return(t, resp) ==
  /\ req' = [req EXCEPT ![t] = IdleReq]
  /\ last_resp' = resp

(***************************************************************************)
(* app.py: one call of sanitize_filename_keep_parens and a second call on  *)
(* its result.                                                             *)
(***************************************************************************)
VARIABLES
  san_pc,      \* position: "off", "call", "returned", "again"
  san_name,    \* the argument name
  san_result,  \* the value returned
  san_again    \* the value returned for san_result

san_vars == <<san_pc, san_name, san_result, san_again>>

(***************************************************************************)
(* converter.py: the open Word document convert_questions_to_text works on.*)
(***************************************************************************)
VARIABLES
  doc,         \* doc.Paragraphs: the paragraphs of the open document
  doc0,        \* history: the paragraphs as they were when the call began
  targets,     \* converter.py:87  indices of the paragraphs collected
  cq_pc,       \* position in convert_questions_to_text
  cq_processed,\* converter.py:94  processed
  reported,    \* the value last passed to the progress callback, -1 if none
  cq_txt       \* converter.py:112  txt, the text read back in the last iteration

doc_vars == <<doc, doc0, targets, cq_pc, cq_processed, reported, cq_txt>>

(***************************************************************************)
(* app.py: updates of a job record made by _run_job.                       *)
(***************************************************************************)
\* the status assignment of line 63 left out
job_processing_no_status(job) == [job EXCEPT !.processing_pct = 0]

\* app.py:62-64
job_processing(job) ==
  [job EXCEPT !.status = "processing", !.processing_pct = 0]

\* the final_path assignment of line 69 left out
job_done_no_path(job, final_path) ==
  [job EXCEPT !.status = "done", !.processing_pct = 100]

\* app.py:67-70
job_done(job, final_path) ==
  [job EXCEPT !.status = "done", !.final_path = final_path,
              !.processing_pct = 100]

\* the error assignment of line 74 left out
job_error_no_message(job, msg) == [job EXCEPT !.status = "error"]

\* app.py:72-74
job_error(job, msg) ==
  [job EXCEPT !.status = "error", !.error = msg]

Max(a, b) == IF a >= b THEN a ELSE b

Min(a, b) == IF a <= b THEN a ELSE b

\* max(0, min(100, int(pct)))  (app.py:59)
clamp_pct(pct) == Max(0, Min(100, pct))

\* _run_job.on_progress (app.py:55-59)
on_progress(jobs, job_id, pct) ==
  IF job_id \in DOMAIN jobs
    THEN [jobs EXCEPT ![job_id].processing_pct = clamp_pct(pct)]
    ELSE jobs

\* the share of paragraphs still to do instead of the share done
progress_pct_remaining(processed, total) == ((total - processed) * 100) \div total

\* int((processed / total) * 100)  (converter.py:126); the float result equals
\* the integer quotient for every total below 50
progress_pct(processed, total) == (processed * 100) \div total

\* a LIFO queue: the newest element is taken
queue_get_lifo(q) == <<q[Len(q)], SubSeq(q, 1, Len(q) - 1)>>

\* JOB_QUEUE.get(): the element taken and the queue that remains
queue_get(q) == <<Head(q), Tail(q)>>

(***************************************************************************)
(* app.py: responses of the polling endpoints.                             *)
(***************************************************************************)
\* Python truth value of a path or message: None and "" are false
Falsy(v) == v = None \/ v = << >>

\* progress (app.py:179-190)
progress(jobs, job_id) ==
  IF job_id \notin DOMAIN jobs
    THEN Resp("progress", 404, "Invalid job id")
    ELSE [Resp("progress", 200, "status") EXCEPT
            !.job_id = job_id,
            !.status = jobs[job_id].status,
            !.pct = jobs[job_id].processing_pct,
            !.error = jobs[job_id].error]

\* result (app.py:193-204)
result(jobs, job_id) ==
  IF job_id \notin DOMAIN jobs
    THEN Resp("result", 404, "Invalid job id")
  ELSE IF jobs[job_id].status # "done" \/ Falsy(jobs[job_id].final_path)
    THEN Resp("result", 400, "Not ready")
  ELSE [Resp("result", 200, "file") EXCEPT !.job_id = job_id,
                                 !.sent = jobs[job_id].final_path]

(***************************************************************************)
(* app.py: request handlers.  A step taken under JOBS_LOCK, a queue        *)
(* operation and a thread-local stretch of code are each one action.       *)
(***************************************************************************)
\* number of files start_multi registers before it returns
RECURSIVE valid_prefix(_)
valid_prefix(files) ==
  IF files = << >> THEN 0
  ELSE IF Head(files) = << >> \/ ~ allowed_file(Head(files)) THEN 0
  ELSE 1 + valid_prefix(Tail(files))

\* start, lines 103-123: validation, sanitising, saving the upload, uuid4
Start(t, has_part, f) ==
  /\ Receive(t)
  /\ IF ~ has_part
       THEN /\ Return(t, Resp("start", 400, "No file part"))
            /\ UNCHANGED next_id
     ELSE IF f = << >>
       THEN /\ Return(t, Resp("start", 400, "No file selected"))
            /\ UNCHANGED next_id
     ELSE IF ~ allowed_file(f)
       THEN /\ Return(t, Resp("start", 400, "Only .docx allowed"))
            /\ UNCHANGED next_id
     ELSE /\ next_id <= MaxJobs
          /\ req' = [req EXCEPT ![t] =
                       [IdleReq EXCEPT !.op = "start", !.pc = "register",
                                       !.filename = sanitize_filename_keep_parens(f),
                                       !.job_id = next_id]]
          /\ next_id' = next_id + 1
          /\ UNCHANGED last_resp
  /\ UNCHANGED <<JOBS, JOB_QUEUE, put_log, worker, proc, disk,
               doc_vars, san_vars>>

\* start, lines 124-133: the job is registered under JOBS_LOCK
StartRegister(t) ==
  /\ req[t].op = "start" /\ req[t].pc = "register"
  /\ JOBS' = SetJob(JOBS, req[t].job_id,
                    NewJob(req[t].filename,
                           in_path(ToString(req[t].job_id), req[t].filename)))
  /\ req' = [req EXCEPT ![t].pc = "put"]
  /\ UNCHANGED <<JOB_QUEUE, put_log, next_id, worker, proc, disk, last_resp, n_requests,
               doc_vars, san_vars>>

\* start, lines 134-136: the id is queued and returned
StartPut(t) ==
  /\ req[t].op = "start" /\ req[t].pc = "put"
  /\ JOB_QUEUE' = Append(JOB_QUEUE, req[t].job_id)
  /\ put_log' = Append(put_log, req[t].job_id)
  /\ Return(t, [Resp("start", 200, "job_id") EXCEPT !.job_id = req[t].job_id,
                                                    !.jobs = <<req[t].job_id>>])
  /\ UNCHANGED <<JOBS, next_id, worker, proc, disk, n_requests,
               doc_vars, san_vars>>

\* start_multi, lines 141-148; the uuids of the files it will register are
\* drawn here
StartMulti(t, files) ==
  /\ Receive(t)
  /\ IF files = << >>
       THEN /\ Return(t, Resp("start_multi", 400, "No files uploaded"))
            /\ UNCHANGED next_id
       ELSE /\ next_id + valid_prefix(files) - 1 <= MaxJobs
            /\ req' = [req EXCEPT ![t] =
                         [IdleReq EXCEPT !.op = "start_multi", !.pc = "loop",
                                         !.files = files, !.job_id = next_id]]
            /\ next_id' = next_id + valid_prefix(files)
            /\ UNCHANGED last_resp
  /\ UNCHANGED <<JOBS, JOB_QUEUE, put_log, worker, proc, disk,
               doc_vars, san_vars>>

\* start_multi, lines 150-162 and 176: the checks of one loop iteration, or
\* the return after the last file
MultiCheck(t) ==
  /\ req[t].op = "start_multi" /\ req[t].pc = "loop"
  /\ IF req[t].files = << >>
       THEN Return(t, [Resp("start_multi", 200, "jobs") EXCEPT !.jobs = req[t].jobs])
     ELSE IF Head(req[t].files) = << >>
       THEN Return(t, [Resp("start_multi", 400, "One of the files has an empty filename")
                         EXCEPT !.jobs = req[t].jobs])
     ELSE IF ~ allowed_file(Head(req[t].files))
       THEN Return(t, [Resp("start_multi", 400, "Unsupported file")
                         EXCEPT !.jobs = req[t].jobs])
     ELSE /\ req' = [req EXCEPT
                       ![t].pc = "register",
                       ![t].filename = sanitize_filename_keep_parens(Head(req[t].files))]
          /\ UNCHANGED last_resp
  /\ UNCHANGED <<JOBS, JOB_QUEUE, put_log, next_id, worker, proc, disk, n_requests,
               doc_vars, san_vars>>

\* start_multi, lines 163-172
MultiRegister(t) ==
  /\ req[t].op = "start_multi" /\ req[t].pc = "register"
  /\ JOBS' = SetJob(JOBS, req[t].job_id,
                    NewJob(req[t].filename,
                           in_path(ToString(req[t].job_id), req[t].filename)))
  /\ req' = [req EXCEPT ![t].pc = "put"]
  /\ UNCHANGED <<JOB_QUEUE, put_log, next_id, worker, proc, disk, last_resp, n_requests,
               doc_vars, san_vars>>

\* start_multi, lines 173-174
MultiPut(t) ==
  /\ req[t].op = "start_multi" /\ req[t].pc = "put"
  /\ JOB_QUEUE' = Append(JOB_QUEUE, req[t].job_id)
  /\ put_log' = Append(put_log, req[t].job_id)
  /\ req' = [req EXCEPT ![t].pc = "loop",
                        ![t].files = Tail(req[t].files),
                        ![t].filename = << >>,
                        ![t].jobs = Append(req[t].jobs, req[t].job_id),
                        ![t].job_id = req[t].job_id + 1]
  /\ UNCHANGED <<JOBS, next_id, worker, proc, disk, last_resp, n_requests,
               doc_vars, san_vars>>

\* GET /progress/<job_id>: one step under JOBS_LOCK
Progress(t, job_id) ==
  /\ Receive(t)
  /\ Return(t, progress(JOBS, job_id))
  /\ UNCHANGED <<JOBS, JOB_QUEUE, put_log, next_id, worker, proc, disk,
               doc_vars, san_vars>>

\* GET /result/<job_id>: one step under JOBS_LOCK, then send_file
Result(t, job_id) ==
  /\ Receive(t)
  /\ Return(t, result(JOBS, job_id))
  /\ UNCHANGED <<JOBS, JOB_QUEUE, put_log, next_id, worker, proc, disk,
               doc_vars, san_vars>>

\* the arguments of a process_doc call
CallProcessDoc(input_path, output_path, has_progress, job_id) ==
  [IdleProc EXCEPT !.pc = "called", !.input_path = input_path,
                   !.output_path = output_path,
                   !.has_progress = has_progress, !.job_id = job_id]

\* convert, lines 209-239: validation, then process_doc in the request thread
Convert(t, has_part, f) ==
  /\ Receive(t)
  /\ IF ~ has_part
       THEN /\ Return(t, Resp("convert", 302, "No file part in the request."))
            /\ UNCHANGED proc
     ELSE IF f = << >>
       THEN /\ Return(t, Resp("convert", 302, "No file selected."))
            /\ UNCHANGED proc
     ELSE IF ~ allowed_file(f)
       THEN /\ Return(t, Resp("convert", 302, "Please upload a .docx file."))
            /\ UNCHANGED proc
     ELSE LET filename == sanitize_filename_keep_parens(f) IN
          /\ req' = [req EXCEPT ![t] =
                       [IdleReq EXCEPT !.op = "convert", !.pc = "process",
                                       !.filename = filename]]
          /\ proc' = [proc EXCEPT ![t] =
                        CallProcessDoc(in_path(t, filename), out_path(filename),
                                       FALSE, BogusId)]
          /\ UNCHANGED last_resp
  /\ UNCHANGED <<JOBS, JOB_QUEUE, put_log, next_id, worker, disk,
               doc_vars, san_vars>>

\* convert, line 250: the converted file is sent
ConvertReturn(t) ==
  /\ req[t].op = "convert" /\ req[t].pc = "process"
  /\ proc[t].pc = "returned"
  /\ Return(t, [Resp("convert", 200, "file") EXCEPT !.sent = proc[t].result])
  /\ proc' = [proc EXCEPT ![t] = IdleProc]
  /\ UNCHANGED <<JOBS, JOB_QUEUE, put_log, next_id, worker, disk, n_requests,
               doc_vars, san_vars>>

\* convert, lines 240-247: both except clauses flash a message and redirect
ConvertExcept(t) ==
  /\ req[t].op = "convert" /\ req[t].pc = "process"
  /\ proc[t].pc = "raised"
  /\ Return(t, IF proc[t].exc = MSG_NOT_FOUND
                 THEN Resp("convert", 302, "Uploaded file could not be found.")
                 ELSE Resp("convert", 302, "Conversion failed."))
  /\ proc' = [proc EXCEPT ![t] = IdleProc]
  /\ UNCHANGED <<JOBS, JOB_QUEUE, put_log, next_id, worker, disk, n_requests,
               doc_vars, san_vars>>

(***************************************************************************)
(* converter.py: process_doc, run by a worker (for a queued job) or by a   *)
(* request thread (for /convert).                                          *)
(***************************************************************************)
\* doc.SaveAs(path): the file at path now holds the conversion of input_path
SaveAs(files, path, input_path) ==
  [k \in DOMAIN files \cup {path} |-> IF k = path THEN input_path ELSE files[k]]

\* the executors that hold a Word automation session: from
\* _ensure_word_dispatch (line 145) to word.Quit (line 172)
sessions == {e \in Executors : proc[e].pc \in {"convert", "finally"}}

\* process_doc, lines 137-152: a missing input raises before Word is started;
\* else Word is started and the document opened, and either may raise.
\* total is the number of question paragraphs of the document.
PD_Open(e, outcome, total) ==
  /\ proc[e].pc = "called"
  /\ proc' = [proc EXCEPT ![e] =
       CASE outcome = "missing" ->
              [@ EXCEPT !.pc = "raised", !.exc = MSG_NOT_FOUND]
         [] outcome = "dispatch_failed" ->
              [@ EXCEPT !.pc = "raised", !.exc = MSG_COM_ERROR]
         [] outcome = "open_failed" ->
              [@ EXCEPT !.pc = "finally", !.exc = MSG_COM_ERROR]
         [] OTHER ->
              [@ EXCEPT !.pc = "convert", !.total = total, !.processed = 0]]
  /\ UNCHANGED <<JOBS, JOB_QUEUE, put_log, next_id, worker, req, disk, last_resp, n_requests,
               doc_vars, san_vars>>

\* convert_questions_to_text, lines 95-129: one target paragraph is rewritten
\* and the progress callback, when given, is called
PD_Paragraph(e) ==
  /\ proc[e].pc = "convert"
  /\ proc[e].processed < proc[e].total
  /\ proc' = [proc EXCEPT ![e].processed = @ + 1]
  /\ JOBS' = IF proc[e].has_progress
               THEN on_progress(JOBS, proc[e].job_id,
                                progress_pct(proc[e].processed + 1, proc[e].total))
               ELSE JOBS
  /\ UNCHANGED <<JOB_QUEUE, put_log, next_id, worker, req, disk, last_resp, n_requests,
               doc_vars, san_vars>>

\* process_doc, lines 156-161: the document is saved, or SaveAs raises
PD_Save(e, ok) ==
  /\ proc[e].pc = "convert"
  /\ proc[e].processed = proc[e].total
  /\ IF ok
       THEN /\ disk' = SaveAs(disk, proc[e].output_path, proc[e].input_path)
            /\ proc' = [proc EXCEPT ![e].pc = "finally",
                                    ![e].result = proc[e].output_path]
       ELSE /\ proc' = [proc EXCEPT ![e].pc = "finally", ![e].exc = MSG_COM_ERROR]
            /\ UNCHANGED disk
  /\ UNCHANGED <<JOBS, JOB_QUEUE, put_log, next_id, worker, req, last_resp, n_requests,
               doc_vars, san_vars>>

\* process_doc, lines 162-176: the document is closed and Word quit; the call
\* returns its result or propagates its exception
PD_Finally(e) ==
  /\ proc[e].pc = "finally"
  /\ proc' = [proc EXCEPT ![e].pc = IF proc[e].exc = None THEN "returned" ELSE "raised"]
  /\ UNCHANGED <<JOBS, JOB_QUEUE, put_log, next_id, worker, req, disk, last_resp, n_requests,
               doc_vars, san_vars>>

(***************************************************************************)
(* app.py: _worker_loop and _run_job.                                      *)
(***************************************************************************)
\* _worker_loop, lines 85-94: JOB_QUEUE.get (on Empty the loop just retries),
\* then the job is looked up; an id without a job is skipped
W_Get(w) ==
  /\ worker[w].pc = "get"
  /\ JOB_QUEUE # << >>
  /\ worker' = [worker EXCEPT ![w] =
                  IF queue_get(JOB_QUEUE)[1] \in DOMAIN JOBS
                    THEN [pc |-> "run", job_id |-> queue_get(JOB_QUEUE)[1]]
                    ELSE IdleWorker]
  /\ JOB_QUEUE' = queue_get(JOB_QUEUE)[2]
  /\ UNCHANGED <<JOBS, put_log, next_id, req, proc, disk, last_resp, n_requests,
               doc_vars, san_vars>>

\* _run_job, lines 61-66: the job becomes processing and process_doc is called
W_RunStart(w) ==
  /\ worker[w].pc = "run"
  /\ JOBS' = [JOBS EXCEPT ![worker[w].job_id] = job_processing(@)]
  /\ proc' = [proc EXCEPT ![w] =
                CallProcessDoc(JOBS[worker[w].job_id].input_path,
                               JOBS[worker[w].job_id].output_path,
                               TRUE, worker[w].job_id)]
  /\ worker' = [worker EXCEPT ![w].pc = "process"]
  /\ UNCHANGED <<JOB_QUEUE, put_log, next_id, req, disk, last_resp, n_requests,
               doc_vars, san_vars>>

\* _run_job, lines 67-70, then task_done
W_Done(w) ==
  /\ worker[w].pc = "process"
  /\ proc[w].pc = "returned"
  /\ JOBS' = [JOBS EXCEPT ![worker[w].job_id] = job_done(@, proc[w].result)]
  /\ proc' = [proc EXCEPT ![w] = IdleProc]
  /\ worker' = [worker EXCEPT ![w] = IdleWorker]
  /\ UNCHANGED <<JOB_QUEUE, put_log, next_id, req, disk, last_resp, n_requests,
               doc_vars, san_vars>>

\* the exception escapes _worker_loop: the job is marked but the thread ends
W_Error_thread_ends(w) ==
  /\ worker[w].pc = "process"
  /\ proc[w].pc = "raised"
  /\ JOBS' = [JOBS EXCEPT ![worker[w].job_id] = job_error(@, proc[w].exc)]
  /\ proc' = [proc EXCEPT ![w] = IdleProc]
  /\ worker' = [worker EXCEPT ![w] = [pc |-> "ended", job_id |-> BogusId]]
  /\ UNCHANGED <<JOB_QUEUE, put_log, next_id, req, disk, last_resp, n_requests,
                 doc_vars, san_vars>>

\* _run_job, lines 71-79, then task_done
W_Error(w) ==
  /\ worker[w].pc = "process"
  /\ proc[w].pc = "raised"
  /\ JOBS' = [JOBS EXCEPT ![worker[w].job_id] = job_error(@, proc[w].exc)]
  /\ proc' = [proc EXCEPT ![w] = IdleProc]
  /\ worker' = [worker EXCEPT ![w] = IdleWorker]
  /\ UNCHANGED <<JOB_QUEUE, put_log, next_id, req, disk, last_resp, n_requests,
               doc_vars, san_vars>>

\* the file lists a /start-multi request may carry
FileLists ==
  UNION {[1..n -> UploadNames] : n \in 0..MaxFiles}

\* the outcomes of starting Word and opening the document
OpenOutcomes == {"ok", "missing", "dispatch_failed", "open_failed"}

AppNext ==
  \/ \E t \in Threads, has_part \in BOOLEAN, f \in UploadNames : Start(t, has_part, f)
  \/ \E t \in Threads : StartRegister(t)
  \/ \E t \in Threads : StartPut(t)
  \/ \E t \in Threads, files \in FileLists : StartMulti(t, files)
  \/ \E t \in Threads : MultiCheck(t)
  \/ \E t \in Threads : MultiRegister(t)
  \/ \E t \in Threads : MultiPut(t)
  \/ \E t \in Threads, job_id \in DOMAIN JOBS \cup {BogusId} : Progress(t, job_id)
  \/ \E t \in Threads, job_id \in DOMAIN JOBS \cup {BogusId} : Result(t, job_id)
  \/ \E t \in Threads, has_part \in BOOLEAN, f \in UploadNames : Convert(t, has_part, f)
  \/ \E t \in Threads : ConvertReturn(t)
  \/ \E t \in Threads : ConvertExcept(t)
  \/ \E e \in Executors, total \in 0..MaxTargets, outcome \in OpenOutcomes :
        PD_Open(e, outcome, total)
  \/ \E e \in Executors : PD_Paragraph(e)
  \/ \E e \in Executors, ok \in BOOLEAN : PD_Save(e, ok)
  \/ \E e \in Executors : PD_Finally(e)
  \/ \E w \in Workers : W_Get(w)
  \/ \E w \in Workers : W_RunStart(w)
  \/ \E w \in Workers : W_Done(w)
  \/ \E w \in Workers : W_Error(w)

vars == <<app_vars, doc_vars, san_vars>>

\* the application with no document under inspection
NoDoc ==
  /\ doc = << >>
  /\ doc0 = << >>
  /\ targets = << >>
  /\ cq_pc = "off"
  /\ cq_processed = 0
  /\ reported = 0 - 1
  /\ cq_txt = << >>

\* no call of sanitize_filename_keep_parens under inspection
NoSan ==
  /\ san_pc = "off"
  /\ san_name = << >>
  /\ san_result = << >>
  /\ san_again = << >>

Init == AppInit /\ NoDoc /\ NoSan

Next == AppNext

Spec == Init /\ [][Next]_vars

(***************************************************************************)
(* Properties of the job queue and status tracker.                         *)
(***************************************************************************)
Finished == {"done", "error"}

StatusStep(a, b) ==
  \/ a = b
  \/ a = "queued" /\ b = "processing"
  \/ a = "processing" /\ b \in Finished

\* C1: every job is created queued and its status changes only
\* queued -> processing and processing -> done or error, so each change
\* happens at most once, done and error are never left and no job goes from
\* queued directly to done or error.
C1_StatusTransitions ==
  [][ /\ \A id \in DOMAIN JOBS :
           /\ id \in DOMAIN JOBS'
           /\ StatusStep(JOBS[id].status, JOBS'[id].status)
      /\ \A id \in DOMAIN JOBS' \ DOMAIN JOBS : JOBS'[id].status = "queued" ]_vars

C1_Witness ==
  /\ \E id \in DOMAIN JOBS : JOBS[id].status = "done"
  /\ \E id \in DOMAIN JOBS : JOBS[id].status = "error"

\* C2: jobs are processed in the order their ids were put on the queue: when
\* a job has left queued, every job put before it has reached done or error.
C2_ArrivalOrder ==
  \A i \in 1..Len(put_log) : \A j \in (i+1)..Len(put_log) :
     JOBS[put_log[j]].status # "queued" => JOBS[put_log[i]].status \in Finished

\* the job registered second was put first and finished first
C2_Witness ==
  /\ put_log = <<2, 1>>
  /\ JOBS[2].status \in Finished
  /\ JOBS[1].status = "processing"

\* C3: at most one job has status processing.
C3_OneProcessing ==
  Cardinality({id \in DOMAIN JOBS : JOBS[id].status = "processing"}) <= 1

C3_Witness ==
  /\ \E id \in DOMAIN JOBS : JOBS[id].status = "processing"
  /\ \E id \in DOMAIN JOBS : JOBS[id].status = "queued" /\ JOB_QUEUE = <<id>>

\* C4: no two executions of process_doc hold a Word automation session at
\* the same time, whichever entry point started them.
C4_NoConcurrentSessions == Cardinality(sessions) <= 1

\* C5: a job is done exactly when it has a final_path; the result endpoint
\* sends a file exactly for the registered jobs that are done with a
\* final_path and answers 400 'Not ready' for every other registered job.
C5_ResultIffDone ==
  /\ \A id \in DOMAIN JOBS :
       /\ JOBS[id].status = "done" => JOBS[id].final_path # None
       /\ JOBS[id].status # "done" => JOBS[id].final_path = None
       /\ result(JOBS, id).code = 200 <=>
            (JOBS[id].status = "done" /\ JOBS[id].final_path # None)
       /\ JOBS[id].status \in {"queued", "processing", "error"} =>
            /\ result(JOBS, id).code = 400
            /\ result(JOBS, id).body = "Not ready"
  /\ (last_resp.op = "result" /\ last_resp.code = 200) =>
       /\ last_resp.job_id \in DOMAIN JOBS
       /\ JOBS[last_resp.job_id].status = "done"
       /\ last_resp.sent = JOBS[last_resp.job_id].final_path
       /\ last_resp.sent # None

C5_Witness ==
  /\ last_resp.op = "result" /\ last_resp.code = 200
  /\ \E id \in DOMAIN JOBS : JOBS[id].status # "done" /\ result(JOBS, id).code = 400

\* a step in which a polling endpoint answered 404
NotFoundStep ==
  /\ n_requests' = n_requests + 1
  /\ last_resp'.op \in {"progress", "result"}
  /\ last_resp'.code = 404

\* C6: polling an unregistered id answers 404 'Invalid job id' and changes
\* neither the registry nor the queue; a registered id stays registered, so
\* an id returned by an upload is never answered with not-found.
C6_UnknownIdNotFound ==
  /\ [](/\ \A id \in (0..MaxJobs) \ DOMAIN JOBS :
             /\ progress(JOBS, id).code = 404
             /\ progress(JOBS, id).body = "Invalid job id"
             /\ result(JOBS, id).code = 404
             /\ result(JOBS, id).body = "Invalid job id"
        /\ \A i \in 1..Len(put_log) :
             /\ progress(JOBS, put_log[i]).code # 404
             /\ result(JOBS, put_log[i]).code # 404)
  /\ [][ /\ NotFoundStep => UNCHANGED <<JOBS, JOB_QUEUE>>
         /\ \A id \in DOMAIN JOBS : id \in DOMAIN JOBS' ]_vars

C6_Witness ==
  /\ last_resp.op \in {"progress", "result"}
  /\ last_resp.code = 404
  /\ Len(put_log) = 2

\* C7: an upload request answered with a rejection (400) has registered and
\* queued no job.
C7_RejectedRegistersNothing ==
  (last_resp.op \in {"start", "start_multi"} /\ last_resp.code = 400)
     => last_resp.jobs = << >>

\* the number of positions of sequence q that hold x
Occurrences(q, x) == Cardinality({i \in 1..Len(q) : q[i] = x})

\* C8: a job whose process_doc call raised ends with status error, a message
\* and no final_path; a job is put on the queue once and a finished job is
\* neither queued nor held by a worker; the error field is None for every
\* job that is queued, processing or done.
C8_ErrorNoRetry ==
  /\ [](\A id \in DOMAIN JOBS :
          /\ JOBS[id].status = "error" =>
               JOBS[id].error # None /\ JOBS[id].final_path = None
          /\ JOBS[id].status # "error" => JOBS[id].error = None
          /\ Occurrences(put_log, id) <= 1
          /\ JOBS[id].status \in Finished =>
               /\ Occurrences(JOB_QUEUE, id) = 0
               /\ \A w \in Workers : worker[w].job_id # id)
  /\ [][ \A w \in Workers :
           (proc[w].pc = "raised" /\ worker'[w] # worker[w]) =>
              /\ JOBS'[worker[w].job_id].status = "error"
              /\ JOBS'[worker[w].job_id].error = proc[w].exc ]_vars

C8_Witness ==
  \E id \in DOMAIN JOBS :
     /\ JOBS[id].status = "error"
     /\ JOBS[id].error = MSG_NOT_FOUND
     /\ \E w \in Workers : worker[w].pc = "process"

\* values a converter could pass to the progress callback
PctInputs == (0 - 150)..250

\* C9: processing_pct is an integer in 0..100 whatever value the callback
\* receives; it is 0 while the job is queued, never decreases while the job
\* is processing and is 100 when the job is done.
C9_ProgressRange ==
  /\ [](/\ \A v \in PctInputs : clamp_pct(v) \in 0..100
        /\ \A id \in DOMAIN JOBS :
             /\ JOBS[id].processing_pct \in 0..100
             /\ JOBS[id].status = "queued" => JOBS[id].processing_pct = 0
             /\ JOBS[id].status = "done" => JOBS[id].processing_pct = 100)
  /\ [][ \A id \in DOMAIN JOBS :
           (JOBS[id].status = "processing" /\ JOBS'[id].status = "processing")
              => JOBS'[id].processing_pct >= JOBS[id].processing_pct ]_vars

C9_Witness ==
  \E id \in DOMAIN JOBS :
     JOBS[id].status = "processing" /\ JOBS[id].processing_pct = 50

(***************************************************************************)
(* converter.py: is_question_paragraph and convert_questions_to_text.      *)
(***************************************************************************)
\* WdListType values of the Word object model (win32com constants)
wdListNoNumbering == 0

wdListListNumOnly == 1

wdListBullet == 2

wdListSimpleNumbering == 3

wdListOutlineNumbering == 4

wdListMixedNumbering == 5

ANSWER == <<"a","n","s","w","e","r">>

EXPLANATION == <<"e","x","p","l","a","n","a","t","i","o","n">>

\* the predicate without the test of the list level
is_question_paragraph_any_level(p) ==
  LET text == strip(p.Text) IN
  IF startswith(lower(text), ANSWER) \/ startswith(lower(text), EXPLANATION)
    THEN FALSE
  ELSE IF ~ p.lf_ok THEN FALSE
  ELSE /\ p.ListType # wdListNoNumbering
       /\ \/ p.ListType \in {wdListOutlineNumbering, wdListSimpleNumbering}
          \/ p.ListType = wdListListNumOnly

\* is_question_paragraph (converter.py:12-34); lf_ok is false for a paragraph
\* whose ListFormat properties raise when read
is_question_paragraph(p) ==
  LET text == strip(p.Text) IN
  IF startswith(lower(text), ANSWER) \/ startswith(lower(text), EXPLANATION)
    THEN FALSE
  ELSE IF ~ p.lf_ok THEN FALSE
  ELSE LET is_list == p.ListType # wdListNoNumbering
           is_numbered == \/ p.ListType \in {wdListOutlineNumbering,
                                             wdListSimpleNumbering}
                          \/ p.ListType = wdListListNumOnly
           at_top_level == p.ListLevelNumber = 1
       IN is_list /\ is_numbered /\ at_top_level

\* the characters the regex class \d matches
Digits == {"0", "1", "2", "3", "4", "5", "6", "7", "8", "9"}

\* regex ".+$": the text matched, << >> when there is no match; "." matches
\* no newline and "$" matches at the end or before a final newline
dot_plus_end(s) ==
  IF s # << >> /\ \A i \in 1..Len(s) : s[i] # "\n"
    THEN s
  ELSE IF Len(s) >= 2 /\ s[Len(s)] = "\n" /\ \A i \in 1..(Len(s) - 1) : s[i] # "\n"
    THEN SubSeq(s, 1, Len(s) - 1)
  ELSE << >>

\* re.match(r'^(\d+[\.\)]\s?)(.+)$', core): <<lead, rest>>, << >> when there
\* is no match
re_match(core) ==
  LET n == first_not_in(core, Digits) - 1
      k == n + 1
  IN IF n = 0 \/ Len(core) < k THEN << >>
     ELSE IF core[k] \notin {".", ")"} THEN << >>
     ELSE IF /\ Len(core) >= k + 1
             /\ core[k + 1] \in Whitespace
             /\ dot_plus_end(SubSeq(core, k + 2, Len(core))) # << >>
       THEN <<SubSeq(core, 1, k + 1), dot_plus_end(SubSeq(core, k + 2, Len(core)))>>
     ELSE IF dot_plus_end(SubSeq(core, k + 1, Len(core))) # << >>
       THEN <<SubSeq(core, 1, k), dot_plus_end(SubSeq(core, k + 1, Len(core)))>>
     ELSE << >>

CR == <<"\r">>

\* converter.py:111-121: the text written back to the paragraph, txt itself
\* when nothing is written
fix_spacing(txt) ==
  LET core == IF endswith(txt, CR) THEN SubSeq(txt, 1, Len(txt) - 1) ELSE txt
      m == re_match(core)
  IN IF m = << >> THEN txt
     ELSE LET lead == m[1]
              rest == m[2]
              core2 == IF lead[Len(lead)] # " " THEN lead \o <<" ">> \o rest ELSE core
          IN core2 \o (IF endswith(txt, CR) THEN CR ELSE << >>)

\* the numbers Word generates for the items of a list that starts at 9
ListNumbers == << <<"9">>, <<"1","0">>, <<"1","1">>, <<"1","2">>, <<"1","3">> >>

\* ListFormat.ConvertNumbersToText (converter.py:98): the generated number
\* becomes text in front of the paragraph and the list formatting is removed
ConvertNumbersToText(p, list_string, sep) ==
  [p EXCEPT !.ListType = wdListNoNumbering,
            !.Text = list_string \o sep \o p.Text]

\* converter.py:96-112: the paragraph text the loop reads back after the
\* conversion was tried
converted_text(p, conv_ok, list_string, sep) ==
  IF conv_ok THEN ConvertNumbersToText(p, list_string, sep).Text ELSE p.Text

\* the indent assignments placed inside the try block of the conversion, so
\* that a failed conversion skips them
convert_paragraph_one_try(p, conv_ok, list_string, sep) ==
  LET p1 == IF conv_ok
              THEN [ConvertNumbersToText(p, list_string, sep)
                      EXCEPT !.LeftIndent = 0, !.FirstLineIndent = 0]
              ELSE p
  IN [p1 EXCEPT !.Text = fix_spacing(p1.Text)]

\* converter.py:96-121 (rmAutoNum.py:44-72): the loop body for one target
\* paragraph.  A failed ConvertNumbersToText is swallowed (lines 99-101); the
\* property writes of lines 105-106 are taken to succeed.
convert_paragraph(p, conv_ok, list_string, sep) ==
  LET p1 == IF conv_ok THEN ConvertNumbersToText(p, list_string, sep) ELSE p
      p2 == [p1 EXCEPT !.LeftIndent = 0, !.FirstLineIndent = 0]
  IN [p2 EXCEPT !.Text = fix_spacing(p2.Text)]

\* the indices of s whose element satisfies is_question_paragraph, in order
RECURSIVE collect_targets(_, _)
collect_targets(paragraphs, i) ==
  IF i > Len(paragraphs) THEN << >>
  ELSE IF is_question_paragraph(paragraphs[i])
    THEN <<i>> \o collect_targets(paragraphs, i + 1)
  ELSE collect_targets(paragraphs, i + 1)

\* paragraph texts of the documents inspected
TextSamples ==
  { <<"Q", "?", "\r">>,
    <<"A", "n", "s", "w", "e", "r", "\r">>,
    <<" ", "a", "n", "s", "w", "e", "r", "\r">>,
    <<"E", "x", "p", "l", "a", "n", "a", "t", "i", "o", "n", "\r">>,
    <<"2", ")", "x", "\r">> }

ListTypes == {wdListNoNumbering, wdListListNumOnly, wdListBullet,
              wdListSimpleNumbering, wdListOutlineNumbering, wdListMixedNumbering}

\* indentation, in points, of the paragraphs of the documents inspected
SampleLeftIndent == 36

SampleFirstLineIndent == 0 - 18

Paragraph(list_type, level, text, lf_ok) ==
  [ListType |-> list_type, ListLevelNumber |-> level, Text |-> text,
   LeftIndent |-> SampleLeftIndent, FirstLineIndent |-> SampleFirstLineIndent,
   lf_ok |-> lf_ok]

\* the paragraphs a document may hold
ParaSamples ==
  {Paragraph(lt, lv, tx, TRUE) : lt \in ListTypes, lv \in {1, 2}, tx \in TextSamples}
    \cup {Paragraph(wdListSimpleNumbering, 1, <<"Q", "?", "\r">>, FALSE)}

Docs == UNION {[1..n -> ParaSamples] : n \in 1..MaxParas}

\* separators Word may put between the generated number and the text
Separators == { << >>, <<" ">>, <<"\t">>, <<" ", " ">> }

DocInit ==
  /\ AppInit
  /\ NoSan
  /\ doc \in Docs
  /\ doc0 = doc
  /\ targets = << >>
  /\ cq_pc = "collect"
  /\ cq_processed = 0
  /\ reported = 0 - 1
  /\ cq_txt = << >>

\* convert_questions_to_text, lines 85-94: the targets are collected
CQ_Collect ==
  /\ cq_pc = "collect"
  /\ targets' = collect_targets(doc, 1)
  /\ cq_pc' = "loop"
  /\ UNCHANGED <<doc, doc0, cq_processed, reported, cq_txt, app_vars, san_vars>>

\* convert_questions_to_text, lines 95-129: one iteration of the loop
CQ_Paragraph(conv_ok, punct, sep) ==
  /\ cq_pc = "loop"
  /\ cq_processed < Len(targets)
  /\ LET i == targets[cq_processed + 1]
         list_string == ListNumbers[cq_processed + 1] \o <<punct>>
     IN /\ doc' = [doc EXCEPT ![i] = convert_paragraph(@, conv_ok, list_string, sep)]
        /\ cq_txt' = converted_text(doc[i], conv_ok, list_string, sep)
  /\ cq_processed' = cq_processed + 1
  /\ reported' = progress_pct(cq_processed + 1, Len(targets))
  /\ UNCHANGED <<doc0, targets, cq_pc, app_vars, san_vars>>

\* convert_questions_to_text returns after the last target
CQ_Return ==
  /\ cq_pc = "loop"
  /\ cq_processed = Len(targets)
  /\ cq_pc' = "done"
  /\ UNCHANGED <<doc, doc0, targets, cq_processed, reported, cq_txt, app_vars, san_vars>>

DocNext ==
  \/ CQ_Collect
  \/ \E conv_ok \in BOOLEAN, punct \in {".", ")"}, sep \in Separators :
        CQ_Paragraph(conv_ok, punct, sep)
  \/ CQ_Return

SpecDoc == DocInit /\ [][DocNext]_vars

(***************************************************************************)
(* Properties of the document numbering normaliser.                        *)
(***************************************************************************)
\* the paragraph is in an auto-numbered list: simple, outline or ListNum-only
InNumberedList(p) ==
  p.lf_ok /\ p.ListType \in {wdListSimpleNumbering, wdListOutlineNumbering,
                             wdListListNumOnly}

\* the stripped text starts with the word as written: 'Answer', 'Explanation'
PrefixedAsWritten(p) ==
  \/ startswith(strip(p.Text), <<"A", "n", "s", "w", "e", "r">>)
  \/ startswith(strip(p.Text),
                <<"E", "x", "p", "l", "a", "n", "a", "t", "i", "o", "n">>)

\* the stripped text starts with the word in any letter case
PrefixedAnyCase(p) ==
  \E w \in {ANSWER, EXPLANATION} :
     /\ Len(strip(p.Text)) >= Len(w)
     /\ \A i \in 1..Len(w) : lower_char(strip(p.Text)[i]) = w[i]

Matched == {i \in 1..Len(doc0) : is_question_paragraph(doc0[i])}

LeadingDigits(t) == first_not_in(t, Digits) - 1

\* t begins with digits followed by "." or ")"
BeginsNumbered(t) ==
  /\ LeadingDigits(t) >= 1
  /\ Len(t) >= LeadingDigits(t) + 1
  /\ t[LeadingDigits(t) + 1] \in {".", ")"}

\* t without its paragraph-end mark
Core(t) == IF endswith(t, CR) THEN SubSeq(t, 1, Len(t) - 1) ELSE t

\* the digits and the punctuation t begins with
NumberOf(t) == SubSeq(t, 1, LeadingDigits(t) + 1)

\* what follows the punctuation and the whitespace after it, without the
\* paragraph-end mark
RestOf(t) ==
  LET after == SubSeq(Core(t), LeadingDigits(t) + 2, Len(Core(t)))
  IN SubSeq(after, first_not_in(after, Whitespace), Len(after))

\* the index and the text of the paragraph handled by the last iteration
LastTarget == targets[cq_processed]

\* C12: when the text of a matched paragraph, after the conversion of its
\* numbering, begins with digits followed by '.' or ')', the text the paragraph
\* ends up with is that number, exactly one space, the rest of the text and
\* the paragraph-end mark, whatever whitespace followed the punctuation.
C12_OneSpaceAfterNumber ==
  (cq_processed >= 1 /\ BeginsNumbered(cq_txt) /\ RestOf(cq_txt) # << >>) =>
     doc[LastTarget].Text =
        NumberOf(cq_txt) \o <<" ">> \o RestOf(cq_txt)
          \o (IF endswith(cq_txt, CR) THEN CR ELSE << >>)

(***************************************************************************)
(* app.py: sanitize_filename_keep_parens on bounded names.                 *)
(***************************************************************************)
\* characters of the names tried
NameChars == {"a", "(", ")", ".", " ", ":", "/", "\\", "?", "\t"}

\* endings of the names tried
NameEndings == { << >>, DOT_DOCX, <<".", "D", "o", "c", "X">> }

Names ==
  {stem \o ending : stem \in UNION {[1..n -> NameChars] : n \in 0..MaxNameLen},
                    ending \in NameEndings}

SanInit ==
  /\ AppInit
  /\ NoDoc
  /\ san_pc = "call"
  /\ san_name \in Names
  /\ san_result = << >>
  /\ san_again = << >>

\* filename = sanitize_filename_keep_parens(file.filename)
San_Call ==
  /\ san_pc = "call"
  /\ san_result' = sanitize_filename_keep_parens(san_name)
  /\ san_pc' = "returned"
  /\ UNCHANGED <<san_name, san_again, app_vars, doc_vars>>

\* the function applied to its own result
San_Again ==
  /\ san_pc = "returned"
  /\ san_again' = sanitize_filename_keep_parens(san_result)
  /\ san_pc' = "again"
  /\ UNCHANGED <<san_name, san_result, app_vars, doc_vars>>

SanNext == San_Call \/ San_Again

SpecSan == SanInit /\ [][SanNext]_vars

\* the parentheses of s, in order
RECURSIVE Parens(_)
Parens(s) ==
  IF s = << >> THEN << >>
  ELSE IF Head(s) \in {"(", ")"} THEN <<Head(s)>> \o Parens(Tail(s))
  ELSE Parens(Tail(s))

\* C13: the name returned is not empty, has none of the characters
\* < > : " / \ | ? * and no control character, has every parenthesis of the
\* base name of the input, ends with '.docx' in any letter case, and is
\* returned unchanged when the function is applied to it.
C13_SanitizedName ==
  /\ san_pc \in {"returned", "again"} =>
       /\ san_result # << >>
       /\ \A i \in 1..Len(san_result) : san_result[i] \notin ForbiddenChars
       /\ Parens(san_result) = Parens(basename(san_name))
       /\ endswith(lower(san_result), DOT_DOCX)
  /\ san_pc = "again" => san_again = san_result

\* C13 without the parentheses: what the function does guarantee
C13_SanitizedNameNoParens ==
  /\ san_pc \in {"returned", "again"} =>
       /\ san_result # << >>
       /\ \A i \in 1..Len(san_result) : san_result[i] \notin ForbiddenChars
       /\ endswith(lower(san_result), DOT_DOCX)
  /\ san_pc = "again" => san_again = san_result

(***************************************************************************)
(* Progress of the worker.  The upload handlers and the worker are the     *)
(* only code that writes JOBS and JOB_QUEUE; the worker thread is a thread *)
(* of its own (app.py:257-258) that the scheduler keeps running, and every *)
(* process_doc call is assumed to return or raise.                         *)
(***************************************************************************)
LiveNext ==
  \/ \E t \in Threads, has_part \in BOOLEAN, f \in UploadNames : Start(t, has_part, f)
  \/ \E t \in Threads : StartRegister(t)
  \/ \E t \in Threads : StartPut(t)
  \/ \E t \in Threads, files \in FileLists : StartMulti(t, files)
  \/ \E t \in Threads : MultiCheck(t)
  \/ \E t \in Threads : MultiRegister(t)
  \/ \E t \in Threads : MultiPut(t)
  \/ \E w \in Workers, total \in 0..MaxTargets, outcome \in OpenOutcomes :
        PD_Open(w, outcome, total)
  \/ \E w \in Workers : PD_Paragraph(w)
  \/ \E w \in Workers, ok \in BOOLEAN : PD_Save(w, ok)
  \/ \E w \in Workers : PD_Finally(w)
  \/ \E w \in Workers : W_Get(w)
  \/ \E w \in Workers : W_RunStart(w)
  \/ \E w \in Workers : W_Done(w)
  \/ \E w \in Workers : W_Error(w)

\* the worker thread is scheduled fairly and process_doc terminates
WorkerFairness ==
  \A w \in Workers :
     /\ WF_vars(W_Get(w))
     /\ WF_vars(W_RunStart(w))
     /\ WF_vars(\E total \in 0..MaxTargets, outcome \in OpenOutcomes :
                   PD_Open(w, outcome, total))
     /\ WF_vars(PD_Paragraph(w))
     /\ WF_vars(\E ok \in BOOLEAN : PD_Save(w, ok))
     /\ WF_vars(PD_Finally(w))
     /\ WF_vars(W_Done(w))
     /\ WF_vars(W_Error(w))

FairSpec == Init /\ [][LiveNext]_vars /\ WorkerFairness

\* C14: with a fairly scheduled worker and terminating process_doc calls,
\* every job whose id was put on the queue eventually has status done or
\* error, also the jobs queued behind a job that failed.
C14_EveryJobFinishes ==
  \A id \in 1..MaxJobs :
     (\E i \in 1..Len(put_log) : put_log[i] = id)
        ~> (id \in DOMAIN JOBS /\ JOBS[id].status \in Finished)

\* the job put first failed and the job put after it was processed
C14_Witness ==
  /\ Len(put_log) = 2
  /\ JOBS[put_log[1]].status = "error"
  /\ JOBS[put_log[2]].status = "done"

\* C15: for every job with status done, the file at the path the result
\* endpoint serves is the conversion of that job's own uploaded input.
C15_ResultIsOwnConversion ==
  \A id \in DOMAIN JOBS :
     JOBS[id].status = "done" =>
        /\ JOBS[id].final_path \in DOMAIN disk
        /\ disk[JOBS[id].final_path] = JOBS[id].input_path

====
